---- MODULE Spec2Model ----
(***************************************************************************)
(* State-machine model of the Feishu_Enhancer admin console frontend:      *)
(* TasksPage.tsx, BusinessKnowledgePage.tsx, ReasoningKnowledgePage.tsx    *)
(* and services/api.ts.                                                    *)
(*                                                                         *)
(* One page component is mounted (page).  Its React state hooks are the    *)
(* variables; every event handler is one action, and every `await` of a    *)
(* network call splits the handler in two actions: the part that issues    *)
(* the request and the continuation that runs when the response arrives.   *)
(* net holds, in issue order, the handlers suspended at an await of a       *)
(* network call (a continuation reads nothing of its request, only the     *)
(* response); responses may arrive in any order.  ev records what the last *)
(* step did: the handler, the notifications shown, the requests handed to  *)
(* axios and the timers armed.                                             *)
(*                                                                         *)
(* Texts are sequences of characters so that String.trim() is computed.    *)
(* The user-visible message strings of the source are Chinese; the model   *)
(* uses an ASCII rendering of each, given next to its definition.          *)
(***************************************************************************)
EXTENDS Integers, Sequences, FiniteSets, TLC

VARIABLES
    page,                \* the mounted page component (App.tsx routes)
    tasks,               \* TasksPage: useState<Task[]>([])
    loading,             \* both pages: list loading flag
    modalVisible,        \* both pages: add-task / create-edit modal
    detailModalVisible,  \* TasksPage: task detail modal
    selectedTask,        \* TasksPage: useState<Task | null>(null)
    taskInput,           \* TasksPage: useState('')
    confirmFor,          \* id the open delete confirmation is for, 0 = none
    knowledgeList,       \* knowledge pages: useState([])
    editingItem,         \* knowledge pages: useState(null), as a set
    openedBy,            \* knowledge pages: the call that last opened the modal
    form,                \* knowledge pages: create/edit form fields
    searchResults,       \* knowledge pages: useState([])
    searchLoading,       \* knowledge pages: useState(false)
    net,                 \* handlers awaiting a response, in issue order
    timers,              \* pending setTimeout callbacks
    ev                   \* what the last step did

vars == <<page, tasks, loading, modalVisible, detailModalVisible, selectedTask,
          taskInput, confirmFor, knowledgeList, editingItem, openedBy, form,
          searchResults, searchLoading, net, timers, ev>>

taskVars == <<tasks, detailModalVisible, selectedTask, taskInput>>
knowVars ==
    <<knowledgeList, editingItem, openedBy, form, searchResults, searchLoading>>

-----------------------------------------------------------------------------
(* Bounds of the model *)

\* longest text the operator types
MaxLen == 2
\* most request chains (request, then its timer or follow-up request) alive at once
MaxChains == 2
\* granularity of the clock, in ms
TickMs == 500

-----------------------------------------------------------------------------
(* Program constants *)

\* setTimeout(..., 1000) in handleRunTask
REFRESH_DELAY == 1000
\* fetchTasks / fetchKnowledge: list(0, 100)
LIST_SKIP == 0
LIST_LIMIT == 100
\* values.top_k || 5, values.threshold || 0.0
DEFAULT_TOP_K == 5
DEFAULT_THRESHOLD == 0

-----------------------------------------------------------------------------
(* Texts and String.prototype.trim *)

Chars == {" ", "a"}

Texts == UNION {[1..n -> Chars] : n \in 0..MaxLen}

IsSpace(c) == c = " "

RECURSIVE TrimStart(_)
TrimStart(s) ==
    IF s = <<>> THEN <<>>
    ELSE IF IsSpace(Head(s)) THEN TrimStart(Tail(s)) ELSE s

RECURSIVE TrimEnd(_)
TrimEnd(s) ==
    IF s = <<>> THEN <<>>
    ELSE IF IsSpace(s[Len(s)]) THEN TrimEnd(SubSeq(s, 1, Len(s) - 1)) ELSE s

\* taskInput.trim()
Trim(s) == TrimEnd(TrimStart(s))

-----------------------------------------------------------------------------
(* services/api.ts: the axios instance and the feature API modules.  A     *)
(* request is what the call hands to axios.                                *)

API_TIMEOUT == 30000

NoData == [none |-> TRUE]

\* const api = axios.create({ baseURL: '/api', timeout: 30000 })
api(method, path, data) ==
    [method |-> method, url |-> "/api" \o path, data |-> data, timeout |-> API_TIMEOUT]

taskApi_runTask(task) ==
    api("POST", "/tasks/run", [task |-> task, task_id |-> "undefined"])

taskApi_getTask(taskId) == api("GET", "/tasks/" \o ToString(taskId), NoData)

taskApi_getTasks(skip, limit) == api("GET", "/tasks", [skip |-> skip, limit |-> limit])

taskApi_deleteTask(taskId) == api("DELETE", "/tasks/" \o ToString(taskId), NoData)

businessKnowledgeApi_create(data) == api("POST", "/business-knowledge", data)

businessKnowledgeApi_list(skip, limit) ==
    api("GET", "/business-knowledge", [skip |-> skip, limit |-> limit])

businessKnowledgeApi_update(id, data) ==
    api("PUT", "/business-knowledge/" \o ToString(id), data)

businessKnowledgeApi_delete(id) ==
    api("DELETE", "/business-knowledge/" \o ToString(id), NoData)

businessKnowledgeApi_searchByQuestion(query, topK, threshold) ==
    api("POST", "/business-knowledge/search/question",
        [query_text |-> query, top_k |-> topK, threshold |-> threshold])

businessKnowledgeApi_searchByAnswer(query, topK, threshold) ==
    api("POST", "/business-knowledge/search/answer",
        [query_text |-> query, top_k |-> topK, threshold |-> threshold])

reasoningKnowledgeApi_create(data) == api("POST", "/reasoning-knowledge", data)

reasoningKnowledgeApi_list(skip, limit) ==
    api("GET", "/reasoning-knowledge", [skip |-> skip, limit |-> limit])

reasoningKnowledgeApi_update(id, data) ==
    api("PUT", "/reasoning-knowledge/" \o ToString(id), data)

reasoningKnowledgeApi_delete(id) ==
    api("DELETE", "/reasoning-knowledge/" \o ToString(id), NoData)

reasoningKnowledgeApi_searchByTask(query, topK, threshold) ==
    api("POST", "/reasoning-knowledge/search/task",
        [query_text |-> query, top_k |-> topK, threshold |-> threshold])

reasoningKnowledgeApi_searchByStep(query, topK, threshold) ==
    api("POST", "/reasoning-knowledge/search/step",
        [query_text |-> query, top_k |-> topK, threshold |-> threshold])

-----------------------------------------------------------------------------
(* What the backend and the network can answer *)

Ids == {1, 2}

\* A rejected axios call: error.response?.data?.detail is detail (a set, empty
\* when there is no response, no body or no detail field), error.message is
\* the message axios builds itself.
Errors ==
    { [detail |-> {"record not found"}, message |-> "Request failed with status code 404"],
      [detail |-> {}, message |-> "timeout of 30000ms exceeded"] }

\* the message alone
ErrDetail_messageOnly(error) == error.message

\* error.response?.data?.detail || error.message
ErrDetail(error) ==
    IF error.detail # {} /\ (CHOOSE d \in error.detail : TRUE) # ""
    THEN CHOOSE d \in error.detail : TRUE
    ELSE error.message

\* interface Task: the fields the page reads.  A flag is "true", "false",
\* "null" or "undefined" (field missing).
Task(id, all_success, can_execute) ==
    [id |-> id, all_success |-> all_success, can_execute |-> can_execute]

TaskRecords ==
    { Task(1, "true", "null"), Task(2, "false", "undefined"),
      Task(1, "null", "true"), Task(2, "undefined", "false") }

\* GET /tasks answers
TaskLists ==
    { <<>>, <<Task(1, "true", "null")>>,
      <<Task(1, "true", "null"), Task(2, "false", "undefined")>>,
      <<Task(1, "null", "true"), Task(2, "undefined", "false")>> }

\* A JSON number field that may be missing or null.  Similarity scores are
\* kept in units of 10^-5 (ScoreScale), so 0.873 is 87300.
Undefined == [kind |-> "undefined", n |-> 0]
Null == [kind |-> "null", n |-> 0]
Num(n) == [kind |-> "number", n |-> n]

\* interface BusinessKnowledge / ReasoningKnowledge: first and second are
\* question_text and answer_text, or task_text and step_text.
Knowledge(id, similarity) ==
    [id |-> id, first |-> <<"a">>, second |-> <<"a">>, similarity |-> similarity]

\* GET /business-knowledge and GET /reasoning-knowledge answers
KnowledgeLists ==
    { <<>>, <<Knowledge(1, Undefined), Knowledge(2, Null)>> }

\* search answers
SearchAnswers ==
    { <<>>, <<Knowledge(1, Num(87300)), Knowledge(2, Num(12346))>> }

-----------------------------------------------------------------------------
(* Notifications (antd message) and the record of the last step *)

Note(level, text) == [level |-> level, text |-> text]

\* what a step took in from outside: the rejection or the data of the
\* response it resumed on, or the values of the form it read
NoInput == [error |-> {}, data |-> {}, args |-> {}]
Rejected(error) == [error |-> {error}, data |-> {}, args |-> {}]
Resolved(data) == [error |-> {}, data |-> {data}, args |-> {}]
Args(values) == [error |-> {}, data |-> {}, args |-> {values}]

Event(op, notes, sent, input) ==
    [op |-> op, notes |-> notes, sent |-> sent, input |-> input]

RemoveAt(s, i) == SubSeq(s, 1, i - 1) \o SubSeq(s, i + 1, Len(s))

\* The call that last opened the create/edit modal of a knowledge page:
\* handleCreate(), or handleEdit(record) with the id of its record
Opened(by, id) == [by |-> by, id |-> id]
NotOpened == Opened("none", 0)

\* room for one more request chain (a bound of the model, not of the code)
HasRoom == Len(net) + Len(timers) < MaxChains

Timer(delay) == [delay |-> delay, elapsed |-> 0]

\* a timer that runs its callback without waiting
TimerDue_atOnce(t) == TRUE

\* a pending timer whose delay has passed may run its callback
TimerDue(t) == t.elapsed >= t.delay

-----------------------------------------------------------------------------
(* TasksPage.tsx *)

\* An antd Modal (add task, task detail, Modal.confirm) covers the page with
\* its mask: the buttons of the page are out of reach while one is open.
TaskOverlay == modalVisible \/ detailModalVisible \/ confirmFor # 0

\* the await in fetchTasks
FetchTasksCall == taskApi_getTasks(LIST_SKIP, LIST_LIMIT)

\* the check without the trim
InputIsBlank_untrimmed(input) == input = <<>>

\* !taskInput.trim()
InputIsBlank(input) == Trim(input) = <<>>

\* the call on the text as typed
RunTaskCall_untrimmed(input) == taskApi_runTask(input)

\* the await in handleRunTask
RunTaskCall(input) == taskApi_runTask(Trim(input))

\* the await in handleViewDetail
GetTaskCall(taskId) == taskApi_getTask(taskId)

\* the await in handleDelete's onOk
DeleteTaskCall(taskId) == taskApi_deleteTask(taskId)

\* message.warning('please enter a task description')
RunTaskWarning == Note("warning", "please enter a task description")

\* message.success('task added to the run queue, ID: ' + response.data.task_id)
RunTaskSuccess(task_id) ==
    Note("success", "task added to the run queue, ID: " \o ToString(task_id))

\* message.error('<what failed>: ' + (error.response?.data?.detail || error.message))
ErrorNote(prefix, error) == Note("error", prefix \o ": " \o ErrDetail(error))

\* a flag used as a condition: of the four values only true is truthy
Truthy(flag) == flag = "true"

\* <Tag color=...>text</Tag>; the texts are 'unknown', 'yes' and 'no'
Tag(color, text) == [color |-> color, text |-> text]

\* columns, all_success: render: (allSuccess) => allSuccess === null ||
\* allSuccess === undefined ? unknown : allSuccess ? yes : no
AllSuccessRender(allSuccess) ==
    IF allSuccess = "null" \/ allSuccess = "undefined"
    THEN Tag("default", "unknown")
    ELSE IF Truthy(allSuccess) THEN Tag("success", "yes") ELSE Tag("error", "no")

\* the render with the test for null left out
CanExecuteRender_undefinedOnly(canExecute) ==
    IF canExecute = "undefined"
    THEN Tag("default", "unknown")
    ELSE IF Truthy(canExecute) THEN Tag("success", "yes") ELSE Tag("error", "no")

\* columns, can_execute: render: (canExecute) => canExecute === null ||
\* canExecute === undefined ? unknown : canExecute ? yes : no
CanExecuteRender(canExecute) ==
    IF canExecute = "null" \/ canExecute = "undefined"
    THEN Tag("default", "unknown")
    ELSE IF Truthy(canExecute) THEN Tag("success", "yes") ELSE Tag("error", "no")

\* the all_success item of the detail Descriptions
DetailAllSuccess(task) ==
    IF task.all_success = "null" \/ task.all_success = "undefined"
    THEN "unknown"
    ELSE IF Truthy(task.all_success) THEN "yes" ELSE "no"

\* the can_execute item of the detail Descriptions
DetailCanExecute(task) ==
    IF task.can_execute = "null" \/ task.can_execute = "undefined"
    THEN "unknown"
    ELSE IF Truthy(task.can_execute) THEN "yes" ELSE "no"

\* what the page shows of the flags: a pair of texts for every row of the
\* task table, and for the task in the detail modal ({selectedTask && ...})
TableFlags ==
    [r \in 1..Len(tasks) |->
        [all_success |-> AllSuccessRender(tasks[r].all_success).text,
         can_execute |-> CanExecuteRender(tasks[r].can_execute).text]]

DetailFlags ==
    { [all_success |-> DetailAllSuccess(task), can_execute |-> DetailCanExecute(task)] :
        task \in selectedTask }

\* a fetchTasks that aborts the list requests still in flight
ClickRefreshTasks_aborting ==
    /\ page = "tasks" /\ ~TaskOverlay /\ HasRoom
    /\ loading' = TRUE
    /\ net' = Append(SelectSeq(net, LAMBDA h : h # "fetchTasks"), "fetchTasks")
    /\ ev' = Event("fetchTasks", <<>>, <<FetchTasksCall>>, NoInput)
    /\ UNCHANGED <<page, modalVisible, confirmFor, timers, taskVars, knowVars>>

\* the refresh button: onClick={fetchTasks}, up to the await
ClickRefreshTasks ==
    /\ page = "tasks" /\ ~TaskOverlay /\ HasRoom
    /\ loading' = TRUE
    /\ net' = Append(net, "fetchTasks")
    /\ ev' = Event("fetchTasks", <<>>, <<FetchTasksCall>>, NoInput)
    /\ UNCHANGED <<page, modalVisible, confirmFor, timers, taskVars, knowVars>>

\* fetchTasks after the await: setTasks(response.data), finally setLoading(false)
FetchTasksOk ==
    \E i \in 1..Len(net), data \in TaskLists :
        /\ page = "tasks" /\ net[i] = "fetchTasks"
        /\ tasks' = data
        /\ loading' = FALSE
        /\ net' = RemoveAt(net, i)
        /\ ev' = Event("fetchTasks.ok", <<>>, <<>>, Resolved(data))
        /\ UNCHANGED <<page, modalVisible, confirmFor, timers, detailModalVisible,
                       selectedTask, taskInput, knowVars>>

\* fetchTasks, catch: message.error, finally setLoading(false)
FetchTasksFail ==
    \E i \in 1..Len(net), error \in Errors :
        /\ page = "tasks" /\ net[i] = "fetchTasks"
        /\ loading' = FALSE
        /\ net' = RemoveAt(net, i)
        /\ ev' = Event("fetchTasks.catch",
                       <<ErrorNote("fetching the task list failed", error)>>, <<>>,
                       Rejected(error))
        /\ UNCHANGED <<page, modalVisible, confirmFor, timers, taskVars, knowVars>>

\* the add-task button: onClick={() => setModalVisible(true)}
OpenAddTask ==
    /\ page = "tasks" /\ ~TaskOverlay
    /\ modalVisible' = TRUE
    /\ ev' = Event("openAddTask", <<>>, <<>>, NoInput)
    /\ UNCHANGED <<page, loading, confirmFor, net, timers, taskVars, knowVars>>

\* TextArea onChange={(e) => setTaskInput(e.target.value)}
TypeTaskInput ==
    \E text \in Texts :
        /\ page = "tasks" /\ modalVisible /\ text # taskInput
        /\ taskInput' = text
        /\ ev' = Event("setTaskInput", <<>>, <<>>, NoInput)
        /\ UNCHANGED <<page, loading, modalVisible, confirmFor, net, timers, tasks,
                       detailModalVisible, selectedTask, knowVars>>

\* add-task Modal onCancel
CancelAddTask ==
    /\ page = "tasks" /\ modalVisible
    /\ modalVisible' = FALSE
    /\ taskInput' = <<>>
    /\ ev' = Event("cancelAddTask", <<>>, <<>>, NoInput)
    /\ UNCHANGED <<page, loading, confirmFor, net, timers, tasks, detailModalVisible,
                   selectedTask, knowVars>>

\* handleRunTask up to the await (add-task Modal onOk)
HandleRunTask ==
    /\ page = "tasks" /\ modalVisible
    /\ IF InputIsBlank(taskInput)
       THEN /\ ev' = Event("handleRunTask", <<RunTaskWarning>>, <<>>, NoInput)
            /\ UNCHANGED net
       ELSE /\ HasRoom
            /\ net' = Append(net, "handleRunTask")
            /\ ev' = Event("handleRunTask", <<>>, <<RunTaskCall(taskInput)>>, NoInput)
    /\ UNCHANGED <<page, loading, modalVisible, confirmFor, timers, taskVars, knowVars>>

\* handleRunTask after the await
RunTaskOk ==
    \E i \in 1..Len(net), task_id \in Ids :
        /\ page = "tasks" /\ net[i] = "handleRunTask"
        /\ modalVisible' = FALSE
        /\ taskInput' = <<>>
        /\ net' = RemoveAt(net, i)
        /\ timers' = Append(timers, Timer(REFRESH_DELAY))
        /\ ev' = Event("handleRunTask.ok", <<RunTaskSuccess(task_id)>>, <<>>,
                       Resolved(task_id))
        /\ UNCHANGED <<page, loading, confirmFor, tasks, detailModalVisible,
                       selectedTask, knowVars>>

\* handleRunTask, catch
RunTaskFail ==
    \E i \in 1..Len(net), error \in Errors :
        /\ page = "tasks" /\ net[i] = "handleRunTask"
        /\ net' = RemoveAt(net, i)
        /\ ev' = Event("handleRunTask.catch",
                       <<ErrorNote("starting the task failed", error)>>, <<>>,
                       Rejected(error))
        /\ UNCHANGED <<page, loading, modalVisible, confirmFor, timers, taskVars,
                       knowVars>>

\* time passes
Tick ==
    /\ \E k \in 1..Len(timers) : ~TimerDue(timers[k])
    /\ timers' = [k \in 1..Len(timers) |->
                    [timers[k] EXCEPT !.elapsed =
                        IF @ + TickMs > timers[k].delay THEN timers[k].delay
                        ELSE @ + TickMs]]
    /\ ev' = Event("tick", <<>>, <<>>, NoInput)
    /\ UNCHANGED <<page, loading, modalVisible, confirmFor, net, taskVars, knowVars>>

\* the setTimeout callback of handleRunTask: fetchTasks()
RefreshTimeout ==
    \E k \in 1..Len(timers) :
        /\ TimerDue(timers[k])
        /\ timers' = RemoveAt(timers, k)
        /\ loading' = TRUE
        /\ net' = Append(net, "fetchTasks")
        /\ ev' = Event("setTimeout.callback", <<>>, <<FetchTasksCall>>, NoInput)
        /\ UNCHANGED <<page, modalVisible, confirmFor, taskVars, knowVars>>

\* handleViewDetail up to the await (the detail button of a row)
HandleViewDetail ==
    \E r \in 1..Len(tasks) :
        /\ page = "tasks" /\ ~TaskOverlay /\ HasRoom
        /\ net' = Append(net, "handleViewDetail")
        /\ ev' = Event("handleViewDetail", <<>>, <<GetTaskCall(tasks[r].id)>>, NoInput)
        /\ UNCHANGED <<page, loading, modalVisible, confirmFor, timers, taskVars,
                       knowVars>>

\* handleViewDetail after the await
ViewDetailOk ==
    \E i \in 1..Len(net), data \in TaskRecords :
        /\ page = "tasks" /\ net[i] = "handleViewDetail"
        /\ selectedTask' = {data}
        /\ detailModalVisible' = TRUE
        /\ net' = RemoveAt(net, i)
        /\ ev' = Event("handleViewDetail.ok", <<>>, <<>>, Resolved(data))
        /\ UNCHANGED <<page, loading, modalVisible, confirmFor, timers, tasks,
                       taskInput, knowVars>>

\* handleViewDetail with setDetailModalVisible(true) moved into a finally
ViewDetailFail_opensModal ==
    \E i \in 1..Len(net), error \in Errors :
        /\ page = "tasks" /\ net[i] = "handleViewDetail"
        /\ detailModalVisible' = TRUE
        /\ net' = RemoveAt(net, i)
        /\ ev' = Event("handleViewDetail.catch",
                       <<ErrorNote("fetching the task detail failed", error)>>, <<>>,
                       Rejected(error))
        /\ UNCHANGED <<page, loading, modalVisible, confirmFor, timers, tasks,
                       selectedTask, taskInput, knowVars>>

\* handleViewDetail, catch
ViewDetailFail ==
    \E i \in 1..Len(net), error \in Errors :
        /\ page = "tasks" /\ net[i] = "handleViewDetail"
        /\ net' = RemoveAt(net, i)
        /\ ev' = Event("handleViewDetail.catch",
                       <<ErrorNote("fetching the task detail failed", error)>>, <<>>,
                       Rejected(error))
        /\ UNCHANGED <<page, loading, modalVisible, confirmFor, timers, taskVars,
                       knowVars>>

\* detail Modal onCancel={() => setDetailModalVisible(false)}
CloseDetail ==
    /\ page = "tasks" /\ detailModalVisible
    /\ detailModalVisible' = FALSE
    /\ ev' = Event("closeDetail", <<>>, <<>>, NoInput)
    /\ UNCHANGED <<page, loading, modalVisible, confirmFor, net, timers, tasks,
                   selectedTask, taskInput, knowVars>>

\* handleDelete calling deleteTask at once, with no Modal.confirm
HandleDeleteTask_unconfirmed ==
    \E r \in 1..Len(tasks) :
        /\ page = "tasks" /\ ~TaskOverlay /\ HasRoom
        /\ net' = Append(net, "handleDelete")
        /\ ev' = Event("Modal.confirm", <<>>, <<DeleteTaskCall(tasks[r].id)>>, NoInput)
        /\ UNCHANGED <<page, loading, modalVisible, confirmFor, timers, taskVars,
                       knowVars>>

\* handleDelete (the delete button of a row): Modal.confirm({...})
HandleDeleteTask ==
    \E r \in 1..Len(tasks) :
        /\ page = "tasks" /\ ~TaskOverlay
        /\ confirmFor' = tasks[r].id
        /\ ev' = Event("Modal.confirm", <<>>, <<>>, NoInput)
        /\ UNCHANGED <<page, loading, modalVisible, net, timers, taskVars, knowVars>>

\* the confirm dialog is dismissed
DismissDeleteTask ==
    /\ page = "tasks" /\ confirmFor # 0
    /\ confirmFor' = 0
    /\ ev' = Event("Modal.confirm.onCancel", <<>>, <<>>, NoInput)
    /\ UNCHANGED <<page, loading, modalVisible, net, timers, taskVars, knowVars>>

\* onOk of the confirm dialog, up to the await
ConfirmDeleteTask ==
    /\ page = "tasks" /\ confirmFor # 0 /\ HasRoom
    /\ confirmFor' = 0
    /\ net' = Append(net, "handleDelete")
    /\ ev' = Event("Modal.confirm.onOk", <<>>, <<DeleteTaskCall(confirmFor)>>, NoInput)
    /\ UNCHANGED <<page, loading, modalVisible, timers, taskVars, knowVars>>

\* onOk after the await: message.success('deleted'), fetchTasks()
DeleteTaskOk ==
    \E i \in 1..Len(net) :
        /\ page = "tasks" /\ net[i] = "handleDelete"
        /\ loading' = TRUE
        /\ net' = Append(RemoveAt(net, i), "fetchTasks")
        /\ ev' = Event("handleDelete.ok", <<Note("success", "deleted")>>,
                       <<FetchTasksCall>>, NoInput)
        /\ UNCHANGED <<page, modalVisible, confirmFor, timers, taskVars, knowVars>>

\* onOk, catch
DeleteTaskFail ==
    \E i \in 1..Len(net), error \in Errors :
        /\ page = "tasks" /\ net[i] = "handleDelete"
        /\ net' = RemoveAt(net, i)
        /\ ev' = Event("handleDelete.catch",
                       <<ErrorNote("deleting failed", error)>>, <<>>,
                       Rejected(error))
        /\ UNCHANGED <<page, loading, modalVisible, confirmFor, timers, taskVars,
                       knowVars>>

TasksNext ==
    \/ ClickRefreshTasks \/ FetchTasksOk \/ FetchTasksFail
    \/ OpenAddTask \/ TypeTaskInput \/ CancelAddTask
    \/ HandleRunTask \/ RunTaskOk \/ RunTaskFail
    \/ Tick \/ RefreshTimeout
    \/ HandleViewDetail \/ ViewDetailOk \/ ViewDetailFail \/ CloseDetail
    \/ HandleDeleteTask \/ DismissDeleteTask \/ ConfirmDeleteTask
    \/ DeleteTaskOk \/ DeleteTaskFail

\* TasksPage after its first render and useEffect(() => { fetchTasks() }, [])
TasksInit ==
    /\ page = "tasks"
    /\ tasks = <<>> /\ loading = TRUE /\ modalVisible = FALSE
    /\ detailModalVisible = FALSE /\ selectedTask = {} /\ taskInput = <<>>
    /\ confirmFor = 0
    /\ knowledgeList = <<>> /\ editingItem = {} /\ form = [first |-> {}, second |-> {}]
    /\ openedBy = NotOpened
    /\ searchResults = <<>> /\ searchLoading = FALSE
    /\ net = <<"fetchTasks">> /\ timers = <<>>
    /\ ev = Event("mount", <<>>, <<FetchTasksCall>>, NoInput)

-----------------------------------------------------------------------------
(* BusinessKnowledgePage.tsx and ReasoningKnowledgePage.tsx: the same      *)
(* component over businessKnowledgeApi and reasoningKnowledgeApi            *)

KnowledgePages == {"business", "reasoning"}

\* the two search axes of a page: handleSearch(type)
SearchTypes(p) == IF p = "business" THEN {"question", "answer"} ELSE {"task", "step"}

\* A form field holds no value ({}: untouched or reset) or a text.
FieldValues == { {}, {<<>>}, {<<"a">>} }

EmptyForm == [first |-> {}, second |-> {}]

\* What the search form can hold when a search button is pressed: the query
\* text, the result count (initialValue 5, InputNumber min 1 max 50) and the
\* threshold in tenths (initialValue 0.0, InputNumber min 0 max 1); an
\* emptied InputNumber holds no value.
SearchValues(query_text, top_k, threshold) ==
    [query_text |-> query_text, top_k |-> top_k, threshold |-> threshold]

SearchForms ==
    { SearchValues({}, {5}, {0}), SearchValues({<<>>}, {}, {}),
      SearchValues({<<"a">>}, {}, {}), SearchValues({<<"a">>}, {3}, {5}),
      SearchValues({<<"a">>}, {5}, {0}) }

Value(field) == CHOOSE v \in field : TRUE

\* a rule that rejects undefined only
Required_definedOnly(field) == field # {}

\* rules={[{ required: true }]}: undefined and '' are rejected
Required(field) == field # {} /\ Value(field) # <<>>

\* values.top_k || 5, values.threshold || 0.0
OrDefault(field, default) ==
    IF field = {} \/ Value(field) = 0 THEN default ELSE Value(field)

\* the values form.validateFields() resolves with
FormValues(p, f) ==
    IF p = "business"
    THEN [question_text |-> Value(f.first), answer_text |-> Value(f.second)]
    ELSE [task_text |-> Value(f.first), step_text |-> Value(f.second)]

\* the await in fetchKnowledge
FetchKnowledgeCall(p) ==
    IF p = "business" THEN businessKnowledgeApi_list(LIST_SKIP, LIST_LIMIT)
    ELSE reasoningKnowledgeApi_list(LIST_SKIP, LIST_LIMIT)

\* the awaits in handleSubmit: if (editingItem) update(editingItem.id, values)
\* else create(values)
SubmitCall(p, editing, f) ==
    IF editing # {}
    THEN IF p = "business"
         THEN businessKnowledgeApi_update(Value(editing).id, FormValues(p, f))
         ELSE reasoningKnowledgeApi_update(Value(editing).id, FormValues(p, f))
    ELSE IF p = "business"
         THEN businessKnowledgeApi_create(FormValues(p, f))
         ELSE reasoningKnowledgeApi_create(FormValues(p, f))

\* the await in handleDelete
DeleteKnowledgeCall(p, id) ==
    IF p = "business" THEN businessKnowledgeApi_delete(id)
    ELSE reasoningKnowledgeApi_delete(id)

\* handleSearch with the two branches of its conditional exchanged
SearchCall_swapped(p, type, values) ==
    LET query == Value(values.query_text)
        topK == OrDefault(values.top_k, DEFAULT_TOP_K)
        threshold == OrDefault(values.threshold, DEFAULT_THRESHOLD)
    IN  IF p = "business"
        THEN IF type = "question"
             THEN businessKnowledgeApi_searchByAnswer(query, topK, threshold)
             ELSE businessKnowledgeApi_searchByQuestion(query, topK, threshold)
        ELSE IF type = "task"
             THEN reasoningKnowledgeApi_searchByStep(query, topK, threshold)
             ELSE reasoningKnowledgeApi_searchByTask(query, topK, threshold)

\* the await in handleSearch: type === 'question' ? searchByQuestion(...)
\* : searchByAnswer(...), and the same over 'task' on the reasoning page
SearchCall(p, type, values) ==
    LET query == Value(values.query_text)
        topK == OrDefault(values.top_k, DEFAULT_TOP_K)
        threshold == OrDefault(values.threshold, DEFAULT_THRESHOLD)
    IN  IF p = "business"
        THEN IF type = "question"
             THEN businessKnowledgeApi_searchByQuestion(query, topK, threshold)
             ELSE businessKnowledgeApi_searchByAnswer(query, topK, threshold)
        ELSE IF type = "task"
             THEN reasoningKnowledgeApi_searchByTask(query, topK, threshold)
             ELSE reasoningKnowledgeApi_searchByStep(query, topK, threshold)

\* The create/edit Modal masks the page; an open Popconfirm is answered or
\* dismissed before the next click lands.
KnowOverlay == modalVisible \/ confirmFor # 0

\* the rows of the two tables (both use the same columns, with the same
\* edit and delete buttons)
Rows == {knowledgeList[r] : r \in 1..Len(knowledgeList)}
            \cup {searchResults[r] : r \in 1..Len(searchResults)}

\* Number.prototype.toFixed(2) of v / 1000, v >= 0: the nearest hundredth,
\* the larger one on a tie, with two digits after the point
ToFixed2(v) ==
    LET h == (v + 5) \div 10
    IN  ToString(h \div 100) \o "." \o ToString((h % 100) \div 10) \o ToString(h % 10)

\* similarity * 100, in thousandths; null * 100 is 0 in JavaScript
Times100(similarity) == IF similarity.kind = "number" THEN similarity.n ELSE 0

\* the similarity column: render: (similarity) => similarity !== undefined
\* ? (similarity * 100).toFixed(2) + '%' : '-'
RenderSimilarity(similarity) ==
    IF similarity.kind # "undefined"
    THEN ToFixed2(Times100(similarity)) \o "%"
    ELSE "-"

\* the refresh button: onClick={fetchKnowledge}, up to the await
ClickRefreshKnowledge ==
    /\ page \in KnowledgePages /\ ~KnowOverlay /\ HasRoom
    /\ loading' = TRUE
    /\ net' = Append(net, "fetchKnowledge")
    /\ ev' = Event("fetchKnowledge", <<>>, <<FetchKnowledgeCall(page)>>, NoInput)
    /\ UNCHANGED <<page, modalVisible, confirmFor, timers, taskVars, knowVars>>

\* fetchKnowledge after the await
FetchKnowledgeOk ==
    \E i \in 1..Len(net), data \in KnowledgeLists :
        /\ page \in KnowledgePages /\ net[i] = "fetchKnowledge"
        /\ knowledgeList' = data
        /\ loading' = FALSE
        /\ net' = RemoveAt(net, i)
        /\ ev' = Event("fetchKnowledge.ok", <<>>, <<>>, Resolved(data))
        /\ UNCHANGED <<page, modalVisible, confirmFor, timers, taskVars,
                       editingItem, openedBy, form, searchResults, searchLoading>>

\* fetchKnowledge with setKnowledgeList([]) in its catch
FetchKnowledgeFail_clears ==
    \E i \in 1..Len(net), error \in Errors :
        /\ page \in KnowledgePages /\ net[i] = "fetchKnowledge"
        /\ knowledgeList' = <<>>
        /\ loading' = FALSE
        /\ net' = RemoveAt(net, i)
        /\ ev' = Event("fetchKnowledge.catch",
                       <<ErrorNote("fetching the knowledge list failed", error)>>,
                       <<>>, Rejected(error))
        /\ UNCHANGED <<page, modalVisible, confirmFor, timers, taskVars,
                       editingItem, openedBy, form, searchResults, searchLoading>>

\* fetchKnowledge, catch
FetchKnowledgeFail ==
    \E i \in 1..Len(net), error \in Errors :
        /\ page \in KnowledgePages /\ net[i] = "fetchKnowledge"
        /\ loading' = FALSE
        /\ net' = RemoveAt(net, i)
        /\ ev' = Event("fetchKnowledge.catch",
                       <<ErrorNote("fetching the knowledge list failed", error)>>,
                       <<>>, Rejected(error))
        /\ UNCHANGED <<page, modalVisible, confirmFor, timers, taskVars, knowVars>>


\* handleCreate without its setEditingItem(null)
HandleCreate_keepsEditingItem ==
    /\ page \in KnowledgePages /\ ~KnowOverlay
    /\ openedBy' = Opened("handleCreate", 0)
    /\ form' = EmptyForm
    /\ modalVisible' = TRUE
    /\ ev' = Event("handleCreate", <<>>, <<>>, NoInput)
    /\ UNCHANGED <<page, loading, confirmFor, net, timers, taskVars, knowledgeList,
                   editingItem, searchResults, searchLoading>>

\* handleCreate (the add button)
HandleCreate ==
    /\ page \in KnowledgePages /\ ~KnowOverlay
    /\ editingItem' = {}
    /\ openedBy' = Opened("handleCreate", 0)
    /\ form' = EmptyForm
    /\ modalVisible' = TRUE
    /\ ev' = Event("handleCreate", <<>>, <<>>, NoInput)
    /\ UNCHANGED <<page, loading, confirmFor, net, timers, taskVars, knowledgeList,
                   searchResults, searchLoading>>

\* handleEdit(record) (the edit button of a row)
HandleEdit ==
    \E record \in Rows :
        /\ page \in KnowledgePages /\ ~KnowOverlay
        /\ editingItem' = {record}
        /\ openedBy' = Opened("handleEdit", record.id)
        /\ form' = [first |-> {record.first}, second |-> {record.second}]
        /\ modalVisible' = TRUE
        /\ ev' = Event("handleEdit", <<>>, <<>>, NoInput)
        /\ UNCHANGED <<page, loading, confirmFor, net, timers, taskVars,
                       knowledgeList, searchResults, searchLoading>>

\* the operator edits a field of the create/edit form
EditForm ==
    \E f \in [first : FieldValues \ {{}}, second : FieldValues \ {{}}] :
        /\ page \in KnowledgePages /\ modalVisible
        /\ \/ form' = [form EXCEPT !.first = f.first]
           \/ form' = [form EXCEPT !.second = f.second]
        /\ form' # form
        /\ ev' = Event("form.onChange", <<>>, <<>>, NoInput)
        /\ UNCHANGED <<page, loading, modalVisible, confirmFor, net, timers, taskVars,
                       knowledgeList, editingItem, openedBy, searchResults, searchLoading>>

\* create/edit Modal onCancel: setModalVisible(false); form.resetFields()
CancelModal ==
    /\ page \in KnowledgePages /\ modalVisible
    /\ modalVisible' = FALSE
    /\ form' = EmptyForm
    /\ ev' = Event("modal.onCancel", <<>>, <<>>, NoInput)
    /\ UNCHANGED <<page, loading, confirmFor, net, timers, taskVars, knowledgeList,
                   editingItem, openedBy, searchResults, searchLoading>>

\* handleSubmit up to the await of update or create (Modal onOk); when
\* validateFields rejects, the catch returns on error.errorFields
HandleSubmit ==
    /\ page \in KnowledgePages /\ modalVisible
    /\ IF Required(form.first) /\ Required(form.second)
       THEN /\ HasRoom
            /\ net' = Append(net, IF editingItem # {} THEN "handleSubmit.update"
                                  ELSE "handleSubmit.create")
            /\ ev' = Event("handleSubmit", <<>>,
                           <<SubmitCall(page, editingItem, form)>>, NoInput)
       ELSE /\ ev' = Event("handleSubmit", <<>>, <<>>, NoInput)
            /\ UNCHANGED net
    /\ UNCHANGED <<page, loading, modalVisible, confirmFor, timers, taskVars, knowVars>>

\* handleSubmit after the await: message.success('updated' or 'created'),
\* setModalVisible(false), fetchKnowledge()
SubmitOk ==
    \E i \in 1..Len(net) :
        /\ page \in KnowledgePages
        /\ net[i] \in {"handleSubmit.update", "handleSubmit.create"}
        /\ modalVisible' = FALSE
        /\ loading' = TRUE
        /\ net' = Append(RemoveAt(net, i), "fetchKnowledge")
        /\ ev' = Event("handleSubmit.ok",
                       <<Note("success", IF net[i] = "handleSubmit.update"
                                         THEN "updated" ELSE "created")>>,
                       <<FetchKnowledgeCall(page)>>, NoInput)
        /\ UNCHANGED <<page, confirmFor, timers, taskVars, knowVars>>

\* handleSubmit, catch of a failed update or create
SubmitFail ==
    \E i \in 1..Len(net), error \in Errors :
        /\ page \in KnowledgePages
        /\ net[i] \in {"handleSubmit.update", "handleSubmit.create"}
        /\ net' = RemoveAt(net, i)
        /\ ev' = Event("handleSubmit.catch",
                       <<ErrorNote("the operation failed", error)>>, <<>>,
                       Rejected(error))
        /\ UNCHANGED <<page, loading, modalVisible, confirmFor, timers, taskVars,
                       knowVars>>

\* the delete button of a row opens its Popconfirm
OpenPopconfirm ==
    \E record \in Rows :
        /\ page \in KnowledgePages /\ ~KnowOverlay
        /\ confirmFor' = record.id
        /\ ev' = Event("Popconfirm.open", <<>>, <<>>, NoInput)
        /\ UNCHANGED <<page, loading, modalVisible, net, timers, taskVars, knowVars>>

\* the Popconfirm is dismissed
DismissPopconfirm ==
    /\ page \in KnowledgePages /\ confirmFor # 0
    /\ confirmFor' = 0
    /\ ev' = Event("Popconfirm.onCancel", <<>>, <<>>, NoInput)
    /\ UNCHANGED <<page, loading, modalVisible, net, timers, taskVars, knowVars>>

\* Popconfirm onConfirm={() => handleDelete(record.id)}, up to the await
HandleDeleteKnowledge ==
    /\ page \in KnowledgePages /\ confirmFor # 0 /\ HasRoom
    /\ confirmFor' = 0
    /\ net' = Append(net, "handleDelete")
    /\ ev' = Event("Popconfirm.onConfirm", <<>>,
                   <<DeleteKnowledgeCall(page, confirmFor)>>, NoInput)
    /\ UNCHANGED <<page, loading, modalVisible, timers, taskVars, knowVars>>

\* handleDelete after the await: message.success('deleted'), fetchKnowledge()
DeleteKnowledgeOk ==
    \E i \in 1..Len(net) :
        /\ page \in KnowledgePages /\ net[i] = "handleDelete"
        /\ loading' = TRUE
        /\ net' = Append(RemoveAt(net, i), "fetchKnowledge")
        /\ ev' = Event("handleDelete.ok", <<Note("success", "deleted")>>,
                       <<FetchKnowledgeCall(page)>>, NoInput)
        /\ UNCHANGED <<page, modalVisible, confirmFor, timers, taskVars, knowVars>>

\* handleDelete with fetchKnowledge() moved after the try/catch
DeleteKnowledgeFail_refetch ==
    \E i \in 1..Len(net), error \in Errors :
        /\ page \in KnowledgePages /\ net[i] = "handleDelete"
        /\ loading' = TRUE
        /\ net' = Append(RemoveAt(net, i), "fetchKnowledge")
        /\ ev' = Event("handleDelete.catch",
                       <<ErrorNote("deleting failed", error)>>,
                       <<FetchKnowledgeCall(page)>>, Rejected(error))
        /\ UNCHANGED <<page, modalVisible, confirmFor, timers, taskVars, knowVars>>

\* handleDelete, catch
DeleteKnowledgeFail ==
    \E i \in 1..Len(net), error \in Errors :
        /\ page \in KnowledgePages /\ net[i] = "handleDelete"
        /\ net' = RemoveAt(net, i)
        /\ ev' = Event("handleDelete.catch",
                       <<ErrorNote("deleting failed", error)>>, <<>>,
                       Rejected(error))
        /\ UNCHANGED <<page, loading, modalVisible, confirmFor, timers, taskVars,
                       knowVars>>

\* handleSearch(type) up to the await, on the search form's values; the two
\* search buttons carry loading={searchLoading} and take no click while it
\* is set.  When validateFields rejects, the catch returns and the finally
\* block runs setSearchLoading(false).
HandleSearch ==
    \E type \in SearchTypes(page), values \in SearchForms :
        /\ page \in KnowledgePages /\ ~KnowOverlay /\ ~searchLoading
        /\ IF Required(values.query_text)
           THEN /\ HasRoom
                /\ searchLoading' = TRUE
                /\ net' = Append(net, "handleSearch")
                /\ ev' = Event("handleSearch", <<>>, <<SearchCall(page, type, values)>>,
                               Args([type |-> type, values |-> values]))
           ELSE /\ searchLoading' = FALSE
                /\ ev' = Event("handleSearch", <<>>, <<>>,
                               Args([type |-> type, values |-> values]))
                /\ UNCHANGED net
        /\ UNCHANGED <<page, loading, modalVisible, confirmFor, timers, taskVars,
                       knowledgeList, editingItem, openedBy, form, searchResults>>

\* handleSearch after the await: setSearchResults(response.data), finally
SearchOk ==
    \E i \in 1..Len(net), data \in SearchAnswers :
        /\ page \in KnowledgePages /\ net[i] = "handleSearch"
        /\ searchResults' = data
        /\ searchLoading' = FALSE
        /\ net' = RemoveAt(net, i)
        /\ ev' = Event("handleSearch.ok", <<>>, <<>>, Resolved(data))
        /\ UNCHANGED <<page, loading, modalVisible, confirmFor, timers, taskVars,
                       knowledgeList, editingItem, openedBy, form>>

\* handleSearch, catch and finally
SearchFail ==
    \E i \in 1..Len(net), error \in Errors :
        /\ page \in KnowledgePages /\ net[i] = "handleSearch"
        /\ searchLoading' = FALSE
        /\ net' = RemoveAt(net, i)
        /\ ev' = Event("handleSearch.catch",
                       <<ErrorNote("the search failed", error)>>, <<>>,
                       Rejected(error))
        /\ UNCHANGED <<page, loading, modalVisible, confirmFor, timers, taskVars,
                       knowledgeList, editingItem, openedBy, form, searchResults>>

KnowledgeNext ==
    \/ ClickRefreshKnowledge \/ FetchKnowledgeOk \/ FetchKnowledgeFail
    \/ HandleCreate \/ HandleEdit \/ EditForm \/ CancelModal
    \/ HandleSubmit \/ SubmitOk \/ SubmitFail
    \/ OpenPopconfirm \/ DismissPopconfirm \/ HandleDeleteKnowledge
    \/ DeleteKnowledgeOk \/ DeleteKnowledgeFail
    \/ HandleSearch \/ SearchOk \/ SearchFail

\* a knowledge page after its first render and
\* useEffect(() => { fetchKnowledge() }, [])
KnowledgeInit ==
    /\ page \in KnowledgePages
    /\ tasks = <<>> /\ loading = TRUE /\ modalVisible = FALSE
    /\ detailModalVisible = FALSE /\ selectedTask = {} /\ taskInput = <<>>
    /\ confirmFor = 0
    /\ knowledgeList = <<>> /\ editingItem = {} /\ form = EmptyForm
    /\ openedBy = NotOpened
    /\ searchResults = <<>> /\ searchLoading = FALSE
    /\ net = <<"fetchKnowledge">> /\ timers = <<>>
    /\ ev = Event("mount", <<>>, <<FetchKnowledgeCall(page)>>, NoInput)

-----------------------------------------------------------------------------
(* App.tsx: one route, one page *)

Init == TasksInit \/ KnowledgeInit

Next == TasksNext \/ KnowledgeNext

Spec == Init /\ [][Next]_vars

\* the route / (and /tasks) alone
SpecTasks == TasksInit /\ [][TasksNext]_vars

\* the routes /business-knowledge and /reasoning-knowledge alone
SpecKnowledge == KnowledgeInit /\ [][KnowledgeNext]_vars

-----------------------------------------------------------------------------
(* The claims.  What a claim expects of a request or a text is written     *)
(* out here, apart from the operators the actions use.                     *)

\* a text that is empty or holds whitespace only
OnlyWhitespace(s) == \A k \in 1..Len(s) : s[k] = " "

\* s without its leading and trailing whitespace: the text t with no
\* whitespace at either end such that s is whitespace, t, whitespace
Stripped(s) ==
    CHOOSE t \in Texts :
        /\ t # <<>> => (t[1] # " " /\ t[Len(t)] # " ")
        /\ \E a \in 0..Len(s) :
              /\ a + Len(t) <= Len(s)
              /\ SubSeq(s, a + 1, a + Len(t)) = t
              /\ \A k \in (1..a) \cup ((a + Len(t) + 1)..Len(s)) : s[k] = " "

\* C1: on the task page, a submit (handleRunTask) while the task description
\* is empty or whitespace only issues no request, shows exactly one warning,
\* and leaves the add-task modal open and the typed input unchanged.
C1_BlankSubmitBlocked ==
    [][(ev'.op = "handleRunTask" /\ OnlyWhitespace(taskInput))
        => /\ ev'.sent = <<>> /\ net' = net /\ timers' = timers
           /\ Len(ev'.notes) = 1 /\ ev'.notes[1].level = "warning"
           /\ modalVisible /\ modalVisible'
           /\ taskInput' = taskInput]_vars

\* a whitespace-only description was submitted and answered with the warning
C1_Witness ==
    /\ ev.op = "handleRunTask" /\ ev.notes = <<RunTaskWarning>>
    /\ taskInput = <<" ", " ">> /\ modalVisible

\* C7: a submit with non-blank text sends the trimmed text; when it succeeds
\* the page shows a success notification with the task_id the backend
\* returned, closes the add-task modal and clears the input; when it fails
\* the page shows an error notification (the backend's detail, or the
\* generic message) and leaves the modal and the input as they are.
C7_SubmitOutcome ==
    [][/\ (ev'.op = "handleRunTask" /\ ~OnlyWhitespace(taskInput))
          => /\ Len(ev'.sent) = 1
             /\ ev'.sent[1].method = "POST" /\ ev'.sent[1].url = "/api/tasks/run"
             /\ ev'.sent[1].data.task = Stripped(taskInput)
             /\ ev'.notes = <<>>
             /\ modalVisible' = modalVisible /\ taskInput' = taskInput
       /\ ev'.op = "handleRunTask.ok"
          => /\ \E i \in 1..Len(net) : net[i] = "handleRunTask" /\ net' = RemoveAt(net, i)
             /\ Len(ev'.notes) = 1 /\ ev'.notes[1].level = "success"
             /\ \E id \in ev'.input.data :
                   ev'.notes[1].text = "task added to the run queue, ID: " \o ToString(id)
             /\ ~modalVisible' /\ taskInput' = <<>>
       /\ ev'.op = "handleRunTask.catch"
          => /\ \E i \in 1..Len(net) : net[i] = "handleRunTask" /\ net' = RemoveAt(net, i)
             /\ Len(ev'.notes) = 1 /\ ev'.notes[1].level = "error"
             /\ \E e \in ev'.input.error :
                   ev'.notes[1].text = "starting the task failed: "
                       \o (IF e.detail # {} THEN CHOOSE d \in e.detail : TRUE
                           ELSE e.message)
             /\ modalVisible' = modalVisible /\ taskInput' = taskInput]_vars

\* a description typed with a leading blank was submitted trimmed
C7_Witness ==
    /\ ev.op = "handleRunTask" /\ taskInput = <<" ", "a">>
    /\ Len(ev.sent) = 1 /\ ev.sent[1].data.task = <<"a">>

\* the requests the claims speak of
ApiRoot(p) ==
    IF p = "tasks" THEN "/api/tasks"
    ELSE IF p = "business" THEN "/api/business-knowledge"
    ELSE "/api/reasoning-knowledge"

IsListRequest(r, p) ==
    r.method = "GET" /\ r.url = ApiRoot(p) /\ r.data = [skip |-> 0, limit |-> 100]

IsDeleteRequest(r, p, id) ==
    r.method = "DELETE" /\ r.url = ApiRoot(p) \o "/" \o ToString(id)

\* the list request handler of the page
Fetcher(p) == IF p = "tasks" THEN "fetchTasks" ELSE "fetchKnowledge"

\* a handler suspended in net resumes: it leaves net, and follow is what it
\* leaves there (nothing, or the list request it goes on to await)
Resumes(handlers, follow) ==
    \E i \in 1..Len(net) : net[i] \in handlers /\ net' = RemoveAt(net, i) \o follow

ConfirmOps == {"Modal.confirm.onOk", "Popconfirm.onConfirm"}
OpenPromptOps == {"Modal.confirm", "Popconfirm.open"}
DismissOps == {"Modal.confirm.onCancel", "Popconfirm.onCancel"}

\* C2: a confirmed delete issues exactly one delete request, for the id the
\* prompt was opened for; when that request succeeds the page issues exactly
\* one list request; when it fails the page issues none.
C2_DeleteThenRefresh ==
    [][/\ ev'.op \in ConfirmOps
          => /\ confirmFor # 0
             /\ Len(ev'.sent) = 1 /\ IsDeleteRequest(ev'.sent[1], page, confirmFor)
             /\ net' = Append(net, "handleDelete")
       /\ ev'.op = "handleDelete.ok"
          => /\ Resumes({"handleDelete"}, <<Fetcher(page)>>)
             /\ Len(ev'.sent) = 1 /\ IsListRequest(ev'.sent[1], page)
       /\ ev'.op = "handleDelete.catch"
          => /\ Resumes({"handleDelete"}, <<>>)
             /\ ev'.sent = <<>> /\ timers' = timers]_vars

\* a delete on a knowledge page succeeded and the list was requested again
C2_Witness ==
    /\ page \in KnowledgePages /\ ev.op = "handleDelete.ok"
    /\ Len(ev.sent) = 1 /\ net[Len(net)] = "fetchKnowledge"

\* C3: a successful create, update or task run is followed by exactly one
\* list request (skip 0, limit 100) for the page's list, issued when the
\* mutation's response has arrived, and for a task run by a timer of 1000 ms
\* that has run out; a failed mutation is followed by none.  A pending
\* refresh timer can always go on (time passes or its callback runs).
C3_RefreshAfterMutation ==
    /\ [](timers # <<>> => ENABLED (Tick \/ RefreshTimeout))
    /\ [][/\ ev'.op \in {"handleSubmit", "handleRunTask"}
             => /\ \A k \in 1..Len(ev'.sent) : ev'.sent[k].method \in {"POST", "PUT"}
                /\ timers' = timers
          /\ ev'.op = "handleSubmit.ok"
             => /\ Resumes({"handleSubmit.create", "handleSubmit.update"},
                           <<"fetchKnowledge">>)
                /\ Len(ev'.sent) = 1 /\ IsListRequest(ev'.sent[1], page)
                /\ timers' = timers
          /\ ev'.op = "handleRunTask.ok"
             => /\ Resumes({"handleRunTask"}, <<>>)
                /\ ev'.sent = <<>>
                /\ timers' = Append(timers, [delay |-> 1000, elapsed |-> 0])
          /\ ev'.op = "setTimeout.callback"
             => /\ \E k \in 1..Len(timers) :
                      timers[k].elapsed >= 1000 /\ timers' = RemoveAt(timers, k)
                /\ net' = Append(net, "fetchTasks")
                /\ Len(ev'.sent) = 1 /\ IsListRequest(ev'.sent[1], "tasks")
          /\ ev'.op \in {"handleSubmit.catch", "handleRunTask.catch"}
             => /\ Resumes({"handleSubmit.create", "handleSubmit.update",
                            "handleRunTask"}, <<>>)
                /\ ev'.sent = <<>> /\ timers' = timers]_vars

\* the refresh timer of a task run has run out and the list was requested
C3_Witness ==
    /\ ev.op = "setTimeout.callback" /\ Len(ev.sent) = 1
    /\ net[Len(net)] = "fetchTasks"

\* the catch a suspended handler resumes in when its call is rejected
CatchOf(handler) ==
    IF handler \in {"handleSubmit.create", "handleSubmit.update"}
    THEN "handleSubmit.catch"
    ELSE handler \o ".catch"

FailurePrefixes ==
    { "fetching the task list failed", "starting the task failed",
      "fetching the task detail failed", "deleting failed",
      "fetching the knowledge list failed", "the operation failed",
      "the search failed" }

\* C4: a network call that fails (list, get, run, create, update, delete,
\* search) produces exactly one error notification, built from the
\* response's detail when there is one and from the error's message
\* otherwise, and the handler stops: it sends nothing and arms no timer.
C4_FailureNotifiesAndStops ==
    [][ev'.input.error # {}
        => /\ \E i \in 1..Len(net) :
                 net' = RemoveAt(net, i) /\ ev'.op = CatchOf(net[i])
           /\ Len(ev'.notes) = 1 /\ ev'.notes[1].level = "error"
           /\ \E e \in ev'.input.error, prefix \in FailurePrefixes :
                 ev'.notes[1].text = prefix \o ": "
                     \o (IF e.detail # {} THEN CHOOSE d \in e.detail : TRUE
                         ELSE e.message)
           /\ ev'.sent = <<>> /\ timers' = timers]_vars

\* an update or create was rejected with a detail, and the detail was shown
C4_Witness ==
    /\ ev.op = "handleSubmit.catch"
    /\ ev.notes = <<Note("error", "the operation failed: record not found")>>

\* C5: the state that holds response data changes only in the step in which
\* the corresponding request completes successfully, and to the data of
\* that response.
C5_DataChangesOnSuccessOnly ==
    [][/\ tasks' # tasks
          => ev'.op = "fetchTasks.ok" /\ Resumes({"fetchTasks"}, <<>>)
             /\ ev'.input.data = {tasks'}
       /\ knowledgeList' # knowledgeList
          => ev'.op = "fetchKnowledge.ok" /\ Resumes({"fetchKnowledge"}, <<>>)
             /\ ev'.input.data = {knowledgeList'}
       /\ searchResults' # searchResults
          => ev'.op = "handleSearch.ok" /\ Resumes({"handleSearch"}, <<>>)
             /\ ev'.input.data = {searchResults'}
       /\ selectedTask' # selectedTask
          => ev'.op = "handleViewDetail.ok" /\ Resumes({"handleViewDetail"}, <<>>)
             /\ ev'.input.data = selectedTask']_vars

\* a list request failed while the page held a list, and the list is kept
C5_Witness ==
    /\ ev.op = "fetchKnowledge.catch" /\ knowledgeList # <<>>

\* C6: a delete request is issued only by confirming the prompt, and for the
\* record the prompt was opened for; asking for a deletion only opens the
\* prompt; dismissing the prompt issues no request and changes no list.
C6_DeleteNeedsConfirmation ==
    [][/\ \A k \in 1..Len(ev'.sent) :
             ev'.sent[k].method = "DELETE"
             => /\ ev'.op \in ConfirmOps /\ confirmFor # 0
                /\ IsDeleteRequest(ev'.sent[k], page, confirmFor)
       /\ ev'.op \in OpenPromptOps
          => /\ confirmFor = 0 /\ confirmFor' # 0
             /\ ev'.sent = <<>> /\ net' = net
             /\ UNCHANGED <<tasks, knowledgeList, searchResults>>
       /\ ev'.op \in DismissOps
          => /\ confirmFor # 0 /\ confirmFor' = 0
             /\ ev'.sent = <<>> /\ net' = net
             /\ UNCHANGED <<tasks, knowledgeList, searchResults>>]_vars

\* the prompt for task 2 was confirmed and the delete of task 2 was sent
C6_Witness ==
    /\ ev.op = "Modal.confirm.onOk"
    /\ Len(ev.sent) = 1 /\ IsDeleteRequest(ev.sent[1], "tasks", 2)

\* a form field with nothing in it
Missing(field) == field = {} \/ field = {<<>>}

\* C8: on a knowledge page, a submit of the create/edit form with a required
\* field missing issues no request, shows no notification and leaves the
\* modal open and the list unchanged; a search with no query text issues no
\* request and leaves the search results unchanged.
C8_RequiredFields ==
    [][/\ (ev'.op = "handleSubmit" /\ (Missing(form.first) \/ Missing(form.second)))
          => /\ ev'.sent = <<>> /\ net' = net /\ ev'.notes = <<>>
             /\ modalVisible /\ modalVisible'
             /\ knowledgeList' = knowledgeList
       /\ (ev'.op = "handleSearch"
             /\ \E a \in ev'.input.args : Missing(a.values.query_text))
          => /\ ev'.sent = <<>> /\ net' = net /\ ev'.notes = <<>>
             /\ searchResults' = searchResults]_vars

\* the form was submitted with its second field emptied, and nothing was sent
C8_Witness ==
    /\ ev.op = "handleSubmit" /\ ev.sent = <<>> /\ modalVisible
    /\ form.first = {<<"a">>} /\ form.second = {<<>>}

\* C9: a valid search on an axis of the page issues exactly one request, to
\* the search endpoint of that axis, with the form's query text, its result
\* count (5 when empty) and its threshold (0 when empty); on success the
\* search results become the records returned.
C9_SearchDispatch ==
    [][/\ ev'.op = "handleSearch"
          => \A a \in ev'.input.args :
               ~Missing(a.values.query_text)
               => /\ a.type \in (IF page = "business" THEN {"question", "answer"}
                                  ELSE {"task", "step"})
                  /\ Len(ev'.sent) = 1
                  /\ ev'.sent[1].method = "POST"
                  /\ ev'.sent[1].url = ApiRoot(page) \o "/search/" \o a.type
                  /\ ev'.sent[1].data =
                        [query_text |-> CHOOSE q \in a.values.query_text : TRUE,
                         top_k |-> IF a.values.top_k = {} THEN 5
                                   ELSE CHOOSE n \in a.values.top_k : TRUE,
                         threshold |-> IF a.values.threshold = {} THEN 0
                                       ELSE CHOOSE n \in a.values.threshold : TRUE]
                  /\ net' = Append(net, "handleSearch")
       /\ ev'.op = "handleSearch.ok"
          => /\ Resumes({"handleSearch"}, <<>>)
             /\ ev'.input.data = {searchResults'}]_vars

\* a search by answer with the count and the threshold left empty was sent
C9_Witness ==
    /\ page = "business" /\ ev.op = "handleSearch" /\ Len(ev.sent) = 1
    /\ ev.sent[1].url = "/api/business-knowledge/search/answer"
    /\ ev.sent[1].data = [query_text |-> <<"a">>, top_k |-> 5, threshold |-> 0]

\* s * 100 with two decimals and a percent sign, s in units of 10^-5: the
\* hundredth nearest to n / 1000
TwoDecimalPercent(n) ==
    LET h == CHOOSE h \in {n \div 10, n \div 10 + 1} :
                 \A g \in {n \div 10, n \div 10 + 1} :
                     LET dh == IF 10 * h >= n THEN 10 * h - n ELSE n - 10 * h
                         dg == IF 10 * g >= n THEN 10 * g - n ELSE n - 10 * g
                     IN  dh < dg \/ (dh = dg /\ h >= g)
        digit == <<"0", "1", "2", "3", "4", "5", "6", "7", "8", "9">>
    IN  ToString(h \div 100) \o "." \o digit[((h \div 10) % 10) + 1]
            \o digit[(h % 10) + 1] \o "%"

\* C10: in the knowledge tables a record with a similarity score s shows
\* s * 100 with two decimals and '%', and a record with no score (the field
\* missing or null) shows '-'.
C10_SimilarityRendering ==
    \A row \in Rows :
        RenderSimilarity(row.similarity) =
            IF row.similarity.kind = "number"
            THEN TwoDecimalPercent(row.similarity.n)
            ELSE "-"

\* the text the claim gives for a flag
FlagText(flag) ==
    CASE flag = "true" -> "yes"
      [] flag = "false" -> "no"
      [] flag \in {"null", "undefined"} -> "unknown"

\* C11: for all_success and for can_execute, in every row of the task table
\* and in the task detail view, the text shown is 'unknown' exactly when the
\* flag is null or missing, 'yes' exactly when it is true and 'no' exactly
\* when it is false.
C11_FlagRendering ==
    /\ \A r \in 1..Len(tasks) :
          /\ TableFlags[r].all_success = FlagText(tasks[r].all_success)
          /\ TableFlags[r].can_execute = FlagText(tasks[r].can_execute)
    /\ \A task \in selectedTask :
          DetailFlags = {[all_success |-> FlagText(task.all_success),
                          can_execute |-> FlagText(task.can_execute)]}

\* the table shows a task whose can_execute is null next to one where it is
\* missing, and the detail modal shows a task whose all_success is missing
C11_Witness ==
    /\ Len(tasks) = 2
    /\ tasks[1].can_execute = "null" /\ tasks[2].can_execute = "undefined"
    /\ detailModalVisible
    /\ \E task \in selectedTask : task.all_success = "undefined"

\* C12: on a knowledge page a valid submit issues a create request, and no
\* update, when the modal was last opened by handleCreate, and an update
\* request for the id of the record last passed to handleEdit, and no
\* create, when the modal was last opened by handleEdit.
C12_CreateOrUpdate ==
    [][(ev'.op = "handleSubmit" /\ ~Missing(form.first) /\ ~Missing(form.second))
        => /\ Len(ev'.sent) = 1
           /\ openedBy.by \in {"handleCreate", "handleEdit"}
           /\ openedBy.by = "handleCreate"
              => /\ ev'.sent[1].method = "POST"
                 /\ ev'.sent[1].url = ApiRoot(page)
           /\ openedBy.by = "handleEdit"
              => /\ ev'.sent[1].method = "PUT"
                 /\ ev'.sent[1].url = ApiRoot(page) \o "/" \o ToString(openedBy.id)]_vars

\* an update of record 2 was sent from a modal opened by handleEdit
C12_Witness ==
    /\ ev.op = "handleSubmit" /\ Len(ev.sent) = 1
    /\ openedBy = Opened("handleEdit", 2)
    /\ ev.sent[1].method = "PUT"
    /\ ev.sent[1].url = "/api/reasoning-knowledge/2"

\* the number of calls of a handler that await their response
InFlight(handler) == Cardinality({i \in 1..Len(net) : net[i] = handler})

\* the list the page holds
HeldList(p, taskList, knowList) == IF p = "tasks" THEN taskList ELSE knowList

\* C13: list requests are neither coordinated nor cancelled: a step that
\* issues a list request leaves the earlier ones in flight, a list request
\* leaves flight only by its own response or failure, one at a time, and
\* every successful list response overwrites the held list with its data
\* when it arrives, whatever else is in flight.
C13_ListRequestsUncoordinated ==
    [][LET fetcher == Fetcher(page)
       IN  /\ (\E k \in 1..Len(ev'.sent) : IsListRequest(ev'.sent[k], page))
              => InFlight(fetcher)' = InFlight(fetcher) + 1
           /\ InFlight(fetcher)' < InFlight(fetcher)
              => /\ ev'.op \in {fetcher \o ".ok", fetcher \o ".catch"}
                 /\ InFlight(fetcher)' = InFlight(fetcher) - 1
           /\ ev'.op = fetcher \o ".ok"
              => ev'.input.data = {HeldList(page, tasks', knowledgeList')}]_vars

\* a list response has just overwritten the task list while another list
\* request is still in flight
C13_Witness ==
    /\ ev.op = "fetchTasks.ok" /\ InFlight("fetchTasks") = 1
    /\ ev.input.data = {tasks} /\ Len(tasks) = 2

\* C14: in every state the list loading flag of the page is true exactly
\* when at least one list request of the page is in flight.
C14_LoadingTracksListRequests ==
    loading <=> InFlight(Fetcher(page)) >= 1

\* C15: on the task page, whenever the task detail modal is visible a
\* selected task is held; the modal is opened only by the step that receives
\* a successful task-detail response, which sets the selected task to the
\* task of that response; a failed detail request neither opens the modal
\* nor changes the selected task.
C15_DetailModalHasTask ==
    /\ [](detailModalVisible => selectedTask # {})
    /\ [][/\ (~detailModalVisible /\ detailModalVisible')
             => /\ ev'.op = "handleViewDetail.ok"
                /\ Resumes({"handleViewDetail"}, <<>>)
                /\ selectedTask' = ev'.input.data /\ selectedTask' # {}
          /\ ev'.op = "handleViewDetail.catch"
             => UNCHANGED <<detailModalVisible, selectedTask>>]_vars

\* a detail request failed after an earlier one had shown a task and the
\* modal had been closed: the modal stays closed and the task is kept
C15_FailureSeen ==
    /\ ev.op = "handleViewDetail.catch"
    /\ ~detailModalVisible /\ selectedTask # {}

\* the detail modal shows the task of a successful detail response
C15_Witness ==
    /\ ev.op = "handleViewDetail.ok"
    /\ detailModalVisible /\ selectedTask = ev.input.data

\* C16: on the task page at most one runTask request is in flight at any
\* time: a submit while an earlier submission awaits its response issues no
\* second runTask request.
C16_SingleRunTaskInFlight ==
    InFlight("handleRunTask") <= 1

====
